---- MODULE Spec2Model ----
(***************************************************************************)
(* servidor_http: the request parser (src/src/request/mod.rs) and the      *)
(* response serializer exercised by src/tests/test_response.rs.            *)
(*                                                                         *)
(* A string or byte vector is a sequence of lexemes.  A lexeme is either   *)
(* one delimiter character (CR, LF, SP, ":", "?", "&", "=", ";"), the      *)
(* invalid byte XFF, or a run of characters that holds no delimiter        *)
(* ("GET", "/a", "HTTP/", "1.1").  Every operation of the parser acts on   *)
(* delimiters and on whole tokens, so it is computed lexeme by lexeme the  *)
(* way the code computes it character by character.                        *)
(***************************************************************************)
EXTENDS Naturals, Sequences, FiniteSets

VARIABLES
  form,           \* which parse is called: "text" (TryFrom<&str>) or "bytes" (TryFrom<Vec<u8>>)
  input,          \* the argument of the call
  pc,             \* where the call is
  header_string,  \* the argument of parse_header_str
  body,           \* the body split_sequence! returned
  lines,          \* the lines the iterator of parse_header_str has not yielded yet
  request,        \* the Request under construction, None before Request::new
  result,         \* what the call returned
  response,       \* a Response
  calls,          \* the calls made on the Response since Response::new
  output          \* what to_string returned, None before it is called

request_vars == <<form, input, pc, header_string, body, lines, request, result>>
response_vars == <<response, calls, output>>
vars == <<request_vars, response_vars>>

(***************************************************************************)
(* Bounds                                                                  *)
(***************************************************************************)
\* most header lines placed after the request line of an input
MaxHeaderLines == 2
\* most calls made on a Response before it is serialized
MaxCalls == 3

(***************************************************************************)
(* Characters                                                              *)
(***************************************************************************)
CR == "\r"
LF == "\n"
SP == " "
\* a byte that is not valid UTF-8, and what from_utf8_lossy puts in its place
XFF == "\\xFF"
REPLACEMENT == "U+FFFD"

Whitespace == {SP, CR, LF, "\t"}

None == <<>>
Some(x) == <<x>>

(***************************************************************************)
(* std string operations, as the parser uses them                          *)
(***************************************************************************)
\* position of the first occurrence of lexeme c in s, 0 when there is none
Find(s, c) ==
  IF \E i \in 1..Len(s) : s[i] = c
  THEN CHOOSE i \in 1..Len(s) : s[i] = c /\ \A j \in 1..(i-1) : s[j] # c
  ELSE 0

\* str::contains
Contains(s, c) == \E i \in 1..Len(s) : s[i] = c

\* slice::windows(len).position(|w| w == sep): first position of sep in s, 0 = None
Position(s, sep) ==
  LET hits == {i \in 1..(Len(s) + 1 - Len(sep)) : SubSeq(s, i, i + Len(sep) - 1) = sep}
  IN IF hits = {} THEN 0 ELSE CHOOSE i \in hits : \A j \in hits : i <= j

\* str::splitn(2, c): one part when c does not occur, else the text before the
\* first c and everything after it
Splitn2(s, c) ==
  LET i == Find(s, c)
  IN IF i = 0 THEN <<s>> ELSE <<SubSeq(s, 1, i - 1), SubSeq(s, i + 1, Len(s))>>

\* str::split(c): all the pieces between occurrences of c
RECURSIVE Split(_, _)
Split(s, c) ==
  LET i == Find(s, c)
  IN IF i = 0 THEN <<s>>
     ELSE <<SubSeq(s, 1, i - 1)>> \o Split(SubSeq(s, i + 1, Len(s)), c)

\* str::trim
RECURSIVE TrimStart(_)
TrimStart(s) ==
  IF s # <<>> /\ Head(s) \in Whitespace THEN TrimStart(Tail(s)) ELSE s

RECURSIVE TrimEnd(_)
TrimEnd(s) ==
  IF s # <<>> /\ s[Len(s)] \in Whitespace THEN TrimEnd(SubSeq(s, 1, Len(s) - 1)) ELSE s

Trim(s) == TrimEnd(TrimStart(s))

\* str::split_whitespace: the maximal runs of non-whitespace
RECURSIVE SplitWhitespace(_)
SplitWhitespace(s) ==
  LET t == TrimStart(s)
      ws == {i \in 1..Len(t) : t[i] \in Whitespace}
      e == IF ws = {} THEN Len(t) + 1 ELSE CHOOSE i \in ws : \A j \in ws : i <= j
  IN IF t = <<>> THEN <<>>
     ELSE <<SubSeq(t, 1, e - 1)>> \o SplitWhitespace(SubSeq(t, e, Len(t)))

\* str::lines: lines end at LF, a CR right before that LF is dropped with it, the
\* last line needs no LF, and an empty string has no line
RECURSIVE Lines(_)
Lines(s) ==
  LET i == Find(s, LF)
      l == SubSeq(s, 1, i - 1)
  IN IF s = <<>> THEN <<>>
     ELSE IF i = 0 THEN <<s>>
     ELSE <<IF l # <<>> /\ l[Len(l)] = CR THEN SubSeq(l, 1, Len(l) - 1) ELSE l>>
          \o Lines(SubSeq(s, i + 1, Len(s)))

\* String::from_utf8_lossy
FromUtf8Lossy(bytes) ==
  [i \in 1..Len(bytes) |-> IF bytes[i] = XFF THEN REPLACEMENT ELSE bytes[i]]

(***************************************************************************)
(* Results                                                                 *)
(***************************************************************************)
Ok(v) == [tag |-> "Ok", kind |-> "", payload |-> <<>>, value |-> v]
Err(k, p) == [tag |-> "Err", kind |-> k, payload |-> p, value |-> <<>>]
Pending == [tag |-> "Pending", kind |-> "", payload |-> <<>>, value |-> <<>>]

(***************************************************************************)
(* Collaborators of the request parser                                     *)
(***************************************************************************)
\* the fixed method set
Methods == {"GET", "POST", "PUT", "DELETE", "HEAD", "OPTIONS", "PATCH"}

\* Method::try_from(&str): exact, case-sensitive match of the whole token
MethodTryFrom(token) ==
  IF Len(token) = 1 /\ token[1] \in Methods
  THEN Ok(token[1])
  ELSE Err("InvalidRequestMethod", token)

\* Route::new(method, path)
RouteNew(method, path) == [method |-> method, path |-> path]

\* Query::try_from(&str): pairs between "&", each split once at its first "=";
\* the first pair without "=" fails the parse with the whole query string
QueryTryFrom(query_string) ==
  LET pairs == Split(query_string, "&")
      kv == [i \in 1..Len(pairs) |-> Splitn2(pairs[i], "=")]
  IN IF \E i \in 1..Len(pairs) : Len(kv[i]) < 2
     THEN Err("QueryError", query_string)
     ELSE Ok(kv)

\* CookieList::try_from(&str): segments between ";", trimmed, each split once at
\* its first "="; the first segment without "=" fails the parse
CookieListTryFrom(value) ==
  LET segs == Split(value, ";")
      seg == [i \in 1..Len(segs) |-> Trim(segs[i])]
      kv == [i \in 1..Len(segs) |-> Splitn2(seg[i], "=")]
      bad == {i \in 1..Len(segs) : Len(kv[i]) < 2}
  IN IF bad # {}
     THEN Err("CookieError", seg[CHOOSE i \in bad : \A j \in bad : i <= j])
     ELSE Ok({kv[i] : i \in 1..Len(segs)})

\* CookieList::new()
CookieListNew == {}

\* HashMap::new()
EmptyMap == [k \in {} |-> <<>>]

\* HashMap::insert: insert or overwrite
MapInsert(m, key, value) ==
  [k \in DOMAIN m \cup {key} |-> IF k = key THEN value ELSE m[k]]

\* Package::add_header, generated for Request
add_header(req, key, value) ==
  [req EXCEPT !.headers = MapInsert(req.headers, key, value)]

\* Package::set_body, generated for Request
set_body(req, bytes) == [req EXCEPT !.body = Some(bytes)]

(***************************************************************************)
(* Request                                                                 *)
(***************************************************************************)
\* Request::new
RequestNew(method, path, query) ==
  [path |-> RouteNew(method, path),
   headers |-> EmptyMap,
   query |-> query,
   cookies |-> CookieListNew,
   body |-> None]

\* the target of the request line: its path and its query
ParseTarget(request_path_with_query) ==
  IF Contains(request_path_with_query, "?")
  THEN LET url_and_query == Splitn2(request_path_with_query, "?")
       IN IF Len(url_and_query) < 1 THEN Err("NoUrlFound", <<>>)
          ELSE IF Len(url_and_query) < 2
               THEN Err("QueryError", request_path_with_query)
          ELSE LET query == QueryTryFrom(url_and_query[2])
               IN IF query.tag = "Err" THEN query
                  ELSE Ok([path |-> url_and_query[1], query |-> Some(query.value)])
  ELSE Ok([path |-> request_path_with_query, query |-> None])

\* http_version.contains("HTTP/")
VersionSupportedExact(http_version) == http_version = <<"HTTP/">>

VersionSupported(http_version) == Contains(http_version, "HTTP/")

\* the request line of parse_header_str, with the version checked before the target
RequestLineVersionFirst(hs) ==
  LET ls == Lines(hs)
      parts == IF ls = <<>> THEN <<>> ELSE SplitWhitespace(ls[1])
  IN IF ls = <<>> \/ Len(parts) < 1 THEN Err("InvalidRequest", hs)
     ELSE LET m == MethodTryFrom(parts[1])
          IN IF m.tag = "Err" THEN Err("InvalidRequestMethod", parts[1])
             ELSE IF Len(parts) < 2 THEN Err("NoUrlFound", <<>>)
             ELSE IF Len(parts) < 3 THEN Err("InvalidRequest", hs)
             ELSE IF ~VersionSupported(parts[3])
                  THEN Err("HttpVersionNotSupported", parts[3])
             ELSE LET t == ParseTarget(parts[2])
                  IN IF t.tag = "Err" THEN t
                     ELSE Ok(RequestNew(m.value, t.value.path, t.value.query))

\* the request line of parse_header_str: the new Request, or the first error
RequestLine(hs) ==
  LET ls == Lines(hs)
      request_line_parts == IF ls = <<>> THEN <<>> ELSE SplitWhitespace(ls[1])
  IN IF ls = <<>> THEN Err("InvalidRequest", hs)
     ELSE IF Len(request_line_parts) < 1 THEN Err("InvalidRequest", hs)
     ELSE LET request_method == MethodTryFrom(request_line_parts[1])
          IN IF request_method.tag = "Err"
             THEN Err("InvalidRequestMethod", request_line_parts[1])
             ELSE IF Len(request_line_parts) < 2 THEN Err("NoUrlFound", <<>>)
             ELSE LET t == ParseTarget(request_line_parts[2])
                  IN IF t.tag = "Err" THEN t
                     ELSE IF Len(request_line_parts) < 3 THEN Err("InvalidRequest", hs)
                     ELSE IF ~VersionSupported(request_line_parts[3])
                          THEN Err("HttpVersionNotSupported", request_line_parts[3])
                     ELSE Ok(RequestNew(request_method.value, t.value.path, t.value.query))

\* one header line without the trim of its value
HeaderPartsNoTrim(header) ==
  LET header_parts == Splitn2(header, ":")
  IN IF Len(header_parts) < 2 THEN Err("InvalidHeader", header)
     ELSE Ok([key |-> header_parts[1], value |-> header_parts[2]])

\* one header line: its key and its trimmed value
HeaderParts(header) ==
  LET header_parts == Splitn2(header, ":")
  IN IF Len(header_parts) < 1 THEN Err("InvalidHeader", header)
     ELSE IF Len(header_parts) < 2 THEN Err("InvalidHeader", header)
     ELSE Ok([key |-> header_parts[1], value |-> Trim(header_parts[2])])

\* the header the cookies are read from, whatever the case of its first letter
CookieHeaderAnyCase(headers) ==
  IF <<"Cookie">> \in DOMAIN headers THEN Some(headers[<<"Cookie">>])
  ELSE IF <<"cookie">> \in DOMAIN headers THEN Some(headers[<<"cookie">>])
  ELSE None

\* request.get_header_list().get("Cookie")
CookieHeader(headers) ==
  IF <<"Cookie">> \in DOMAIN headers THEN Some(headers[<<"Cookie">>]) ELSE None

\* one separator of split_sequence!, applied to what the earlier ones left
SplitAt(hb, separator) ==
  LET pos == Position(hb.body, separator)
  IN IF pos = 0 THEN hb
     ELSE [header |-> SubSeq(hb.body, 1, pos - 1),
           body |-> SubSeq(hb.body, pos + Len(separator), Len(hb.body))]

\* split_sequence!(sequence, separators...)
RECURSIVE SplitFrom(_, _)
SplitFrom(hb, separators) ==
  IF separators = <<>> THEN hb
  ELSE SplitFrom(SplitAt(hb, Head(separators)), Tail(separators))

split_sequence(sequence, separators) ==
  SplitFrom([header |-> <<>>, body |-> sequence], separators)

CRLFCRLF == <<CR, LF, CR, LF>>
LFLF == <<LF, LF>>

(***************************************************************************)
(* The inputs the parser is called with                                    *)
(***************************************************************************)
Forms == {"text", "bytes"}

\* request lines the parser rejects
BadRequestLines ==
  { <<>>,
    <<SP>>,
    <<"BOGUS">>,
    <<"GET", "x", SP, "/a", SP, "HTTP/", "1.1">>,
    <<"get", SP, "/a", SP, "HTTP/", "1.1">>,
    <<"BOGUS", SP, "/a", "?", "bad", SP, "BOGUS">>,
    <<"GET">>,
    <<"GET", SP, "/a">>,
    <<"GET", SP, "/a", "?", "bad">>,
    <<"GET", SP, "/a", "?">>,
    <<"GET", SP, "/a", "?", SP, "HTTP/", "1.1">>,
    <<"GET", SP, "/a", "?", "x", "=", "1", "&", "bad", SP, "HTTP/", "1.1">>,
    <<"GET", SP, "/a", "?", "x", "=", "1", SP, "BOGUS">>,
    <<"GET", SP, "/a", "?", "bad", SP, "BOGUS">>,
    <<"GET", SP, "/a", SP, "BOGUS">> }

\* request lines it accepts
GoodRequestLines ==
  { <<"GET", SP, "/a", SP, "HTTP/", "1.1">>,
    <<"GET", SP, "/a", SP, "x", "HTTP/">>,
    <<"DELETE", SP, "/b", "/c", SP, "HTTP/", "1.1">>,
    <<"GET", SP, "/a", "?", "x", "=", "1", "&", "y", "=", "2", "?", SP, "HTTP/", "1.1">>,
    <<"POST", SP, SP, "/", SP, "HTTP/", "1.1", SP, "more">> }

HeaderLines ==
  { <<"Host", SP, ":", SP, "h", XFF, SP>>,
    <<"Host", ":", "h2", ":", "80">>,
    <<"Cookie", ":", SP, "a", "=", "1", ";", SP, "b", "=", "2">>,
    <<"Cookie", ":", SP, "bad">>,
    <<"cookie", ":", SP, "c", "=", "3">>,
    <<"NoColon">> }

Eols == { <<CR, LF>>, <<LF>> }

Bodies ==
  { <<"B", LF, LF, "D">>,
    <<"Host", ":", "z", CR, LF, CR, LF, "D">> }

\* what follows the last line: nothing, its line end, the blank line, a body
Endings(eol) ==
  {<<>>, eol, eol \o eol} \cup {eol \o eol \o b : b \in Bodies}

RECURSIVE Join(_, _)
Join(ls, eol) ==
  IF Len(ls) = 0 THEN <<>>
  ELSE IF Len(ls) = 1 THEN ls[1]
  ELSE ls[1] \o eol \o Join(Tail(ls), eol)

HeaderBlocks(n) == UNION {[1..k -> HeaderLines] : k \in 0..n}

\* the lines of an input: the header lines after a request line that is rejected
\* are never read, one of them is enough
InputLines ==
  {<<rl>> \o hs : rl \in BadRequestLines, hs \in HeaderBlocks(1)}
  \cup {<<rl>> \o hs : rl \in GoodRequestLines, hs \in HeaderBlocks(MaxHeaderLines)}

Inputs ==
  UNION { {Join(ls, eol) \o e : ls \in InputLines, e \in Endings(eol)} : eol \in Eols }

(***************************************************************************)
(* The parse, step by step                                                 *)
(***************************************************************************)
InitRequest ==
  /\ form \in Forms
  /\ input \in Inputs
  /\ form = "text" => ~Contains(input, XFF)
  /\ pc = "call"
  /\ header_string = <<>>
  /\ body = <<>>
  /\ lines = <<>>
  /\ request = None
  /\ result = Pending

\* impl TryFrom<&str> for Request: the call of parse_header_str
TryFromStr ==
  /\ pc = "call" /\ form = "text"
  /\ header_string' = input
  /\ pc' = "request_line"
  /\ UNCHANGED <<form, input, body, lines, request, result, response_vars>>

\* impl TryFrom<Vec<u8>> for Request: the split, the decoding, the call of
\* parse_header_str
TryFromBytes ==
  /\ pc = "call" /\ form = "bytes"
  /\ LET hb == split_sequence(input, <<CRLFCRLF, LFLF>>)
     IN /\ header_string' = FromUtf8Lossy(hb.header)
        /\ body' = hb.body
  /\ pc' = "request_line"
  /\ UNCHANGED <<form, input, lines, request, result, response_vars>>

\* parse_header_str, the request line
ParseRequestLine ==
  /\ pc = "request_line"
  /\ lines' = IF Lines(header_string) = <<>> THEN <<>> ELSE Tail(Lines(header_string))
  /\ LET r == RequestLine(header_string)
     IN IF r.tag = "Err"
        THEN /\ result' = r
             /\ pc' = "done"
             /\ UNCHANGED request
        ELSE /\ request' = Some(r.value)
             /\ pc' = "headers"
             /\ UNCHANGED result
  /\ UNCHANGED <<form, input, header_string, body, response_vars>>

\* parse_header_str, one turn of the loop over the header lines
ParseHeaderLine ==
  /\ pc = "headers"
  /\ IF lines = <<>>
     THEN /\ pc' = "cookie"
          /\ UNCHANGED <<lines, request, result>>
     ELSE /\ lines' = Tail(lines)
          /\ IF Head(lines) = <<>>
             THEN /\ pc' = "cookie"
                  /\ UNCHANGED <<request, result>>
             ELSE LET h == HeaderParts(Head(lines))
                  IN IF h.tag = "Err"
                     THEN /\ result' = h
                          /\ pc' = "done"
                          /\ UNCHANGED request
                     ELSE /\ request' = Some(add_header(request[1], h.value.key, h.value.value))
                          /\ pc' = "headers"
                          /\ UNCHANGED result
  /\ UNCHANGED <<form, input, header_string, body, response_vars>>

\* parse_header_str, the Cookie header and the return
ParseCookies ==
  /\ pc = "cookie"
  /\ LET cookies == CookieHeader(request[1].headers)
         cookie_list == IF cookies = None THEN Ok(request[1].cookies)
                        ELSE CookieListTryFrom(cookies[1])
     IN IF cookie_list.tag = "Err"
        THEN /\ result' = cookie_list
             /\ pc' = "done"
             /\ UNCHANGED request
        ELSE /\ request' = Some([request[1] EXCEPT !.cookies = cookie_list.value])
             /\ IF form = "bytes"
                THEN pc' = "set_body" /\ UNCHANGED result
                ELSE pc' = "done" /\ result' = Ok(request'[1])
  /\ UNCHANGED <<form, input, header_string, body, lines, response_vars>>

\* impl TryFrom<Vec<u8>> for Request: request.set_body(body) and the return
SetBody ==
  /\ pc = "set_body"
  /\ request' = Some(set_body(request[1], body))
  /\ result' = Ok(request'[1])
  /\ pc' = "done"
  /\ UNCHANGED <<form, input, header_string, body, lines, response_vars>>

NextRequest ==
  \/ TryFromStr
  \/ TryFromBytes
  \/ ParseRequestLine
  \/ ParseHeaderLine
  \/ ParseCookies
  \/ SetBody

(***************************************************************************)
(* Response                                                                *)
(***************************************************************************)
\* Status: the code and the reason phrase of each value
StatusOK == [code |-> <<"200">>, reason |-> <<"OK">>]
StatusProcessing == [code |-> <<"102">>, reason |-> <<"Processing">>]
StatusMovedPermanently == [code |-> <<"301">>, reason |-> <<"Moved", SP, "Permanently">>]

Statuses == {StatusOK, StatusProcessing, StatusMovedPermanently}

\* Response::new(status)
ResponseNew(status) == [status |-> status, headers |-> <<>>, body |-> None]

\* Package::add_header, for Response: insert, or overwrite the entry of that key
ResponseAddHeader(resp, key, value) ==
  LET at == {i \in 1..Len(resp.headers) : resp.headers[i][1] = key}
  IN [resp EXCEPT !.headers =
        IF at = {} THEN Append(@, <<key, value>>)
        ELSE [i \in 1..Len(@) |-> IF i \in at THEN <<key, value>> ELSE @[i]]]

\* Package::set_body_string, for Response
ResponseSetBodyString(resp, s) == [resp EXCEPT !.body = Some(s)]

\* Response::set_session_cookie(name, value): a Set-Cookie header without expiry
ResponseSetSessionCookie(resp, name, value) ==
  ResponseAddHeader(resp, <<"Set-Cookie">>, name \o <<"=">> \o value)

\* a redirect that leaves the status as it was
ResponseRedirectKeepStatus(resp, location) ==
  ResponseAddHeader(resp, <<"Location">>, location)

\* Response::redirect(location)
ResponseRedirect(resp, location) ==
  ResponseAddHeader([resp EXCEPT !.status = StatusMovedPermanently],
                    <<"Location">>, location)

RECURSIVE HeaderBlock(_)
HeaderBlock(headers) ==
  IF headers = <<>> THEN <<>>
  ELSE Head(headers)[1] \o <<":", SP>> \o Head(headers)[2] \o <<CR, LF>>
       \o HeaderBlock(Tail(headers))

\* a serialization that ends the header block only when there are headers
ResponseToStringNoBlank(resp) ==
  <<"HTTP/1.1", SP>> \o resp.status.code \o <<SP>> \o resp.status.reason \o <<CR, LF>>
  \o HeaderBlock(resp.headers)
  \o (IF resp.headers = <<>> THEN <<>> ELSE <<CR, LF>>)
  \o (IF resp.body = None THEN <<>> ELSE resp.body[1])

\* Response::to_string
ResponseToString(resp) ==
  <<"HTTP/1.1", SP>> \o resp.status.code \o <<SP>> \o resp.status.reason \o <<CR, LF>>
  \o HeaderBlock(resp.headers)
  \o <<CR, LF>>
  \o (IF resp.body = None THEN <<>> ELSE resp.body[1])

\* the arguments the calls are made with
HeaderArgs ==
  { <<<<"Content-Type">>, <<"text/html">>>>,
    <<<<"Content-Type">>, <<"text/plain">>>>,
    <<<<"Server">>, <<"Servidor", SP, "HTTP">>>>,
    <<<<"Location">>, <<"/old">>>> }
BodyArgs == { <<"Hello,", SP, "world!">>, <<"Test", CR, LF, CR, LF, "body">> }
CookieArgs == { <<<<"test">>, <<"ok">>>> }
LocationArgs == { <<"/test">>, <<"/other">> }

Call(op, arg) == [op |-> op, arg |-> arg]

InitResponse ==
  /\ response \in {ResponseNew(s) : s \in Statuses}
  /\ calls = <<>>
  /\ output = None

CanCall == output = None /\ Len(calls) < MaxCalls

AddHeader ==
  /\ CanCall
  /\ \E kv \in HeaderArgs :
       /\ response' = ResponseAddHeader(response, kv[1], kv[2])
       /\ calls' = Append(calls, Call("add_header", kv))
  /\ UNCHANGED <<output, request_vars>>

SetBodyString ==
  /\ CanCall
  /\ \E s \in BodyArgs :
       /\ response' = ResponseSetBodyString(response, s)
       /\ calls' = Append(calls, Call("set_body_string", s))
  /\ UNCHANGED <<output, request_vars>>

SetSessionCookie ==
  /\ CanCall
  /\ \E nv \in CookieArgs :
       /\ response' = ResponseSetSessionCookie(response, nv[1], nv[2])
       /\ calls' = Append(calls, Call("set_session_cookie", nv))
  /\ UNCHANGED <<output, request_vars>>

Redirect ==
  /\ CanCall
  /\ \E location \in LocationArgs :
       /\ response' = ResponseRedirect(response, location)
       /\ calls' = Append(calls, Call("redirect", location))
  /\ UNCHANGED <<output, request_vars>>

ToString ==
  /\ output = None
  /\ output' = Some(ResponseToString(response))
  /\ UNCHANGED <<response, calls, request_vars>>

NextResponse ==
  \/ AddHeader
  \/ SetBodyString
  \/ SetSessionCookie
  \/ Redirect
  \/ ToString

(***************************************************************************)
(* Specifications                                                          *)
(***************************************************************************)
\* the request parser, called once on each input
Init ==
  /\ InitRequest
  /\ response = ResponseNew(StatusOK)
  /\ calls = <<>>
  /\ output = None

Next == NextRequest

Spec == Init /\ [][Next]_vars

\* a Response, built, changed and serialized
InitR ==
  /\ InitResponse
  /\ form = "text"
  /\ input = <<>>
  /\ pc = "idle"
  /\ header_string = <<>>
  /\ body = <<>>
  /\ lines = <<>>
  /\ request = None
  /\ result = Pending

SpecResponse == InitR /\ [][NextResponse]_vars

(***************************************************************************)
(* What the claims speak of                                                *)
(***************************************************************************)
\* the call has split its input (byte form) and handed a string to parse_header_str
Handed == pc \notin {"call", "idle"}
\* parse_header_str is past the request line
PastRequestLine == pc \notin {"call", "idle", "request_line"}
Done == pc = "done"
Succeeded == pc = "done" /\ result.tag = "Ok"

\* the bytes before and after the first occurrence of sep in s
Before(s, sep) == SubSeq(s, 1, Position(s, sep) - 1)
After(s, sep) == SubSeq(s, Position(s, sep) + Len(sep), Len(s))

\* the request line handed to parse_header_str, and its tokens
FirstLine == IF Lines(header_string) = <<>> THEN <<>> ELSE Lines(header_string)[1]
Tokens == SplitWhitespace(FirstLine)

\* the lines between the request line and the first empty line (or the end)
HeaderLinesOf(hs) ==
  LET ls == Lines(hs)
      empties == {i \in 2..Len(ls) : ls[i] = <<>>}
      stop == IF empties = {} THEN Len(ls) + 1
              ELSE CHOOSE i \in empties : \A j \in empties : i <= j
  IN IF Len(ls) < 2 THEN <<>> ELSE SubSeq(ls, 2, stop - 1)

KeyOf(line) == SubSeq(line, 1, Find(line, ":") - 1)
ValueOf(line) == SubSeq(line, Find(line, ":") + 1, Len(line))

\* the last of the lines of block whose key is key
LastWith(block, key) ==
  LET at == {i \in 1..Len(block) : Contains(block[i], ":") /\ KeyOf(block[i]) = key}
  IN block[CHOOSE i \in at : \A j \in at : j <= i]

\* C1: byte form: an input that holds CRLF CRLF is split at its first CRLF CRLF and
\* nowhere else: the header block parsed is the bytes before it, the body is all
\* the bytes after it, whatever they hold.
C1_SplitAtFirstCRLFCRLF ==
  (form = "bytes" /\ Handed /\ Position(input, CRLFCRLF) # 0)
    => /\ header_string = FromUtf8Lossy(Before(input, CRLFCRLF))
       /\ body = After(input, CRLFCRLF)

\* C2: byte form: an input with neither CRLF CRLF nor LF LF is the header portion
\* as a whole, a well-formed one parses to a Request, and the body is absent.
C2_NoSeparatorIsAllHeader ==
  (form = "bytes" /\ Handed /\ Position(input, CRLFCRLF) = 0 /\ Position(input, LFLF) = 0)
    => /\ header_string = FromUtf8Lossy(input)
       /\ (Done /\ input = <<"GET", SP, "/a", SP, "HTTP/", "1.1">>)
            => (result.tag = "Ok" /\ result.value.body = None)

\* the bytes of the input that follow its header/body separator, the first
\* CRLF CRLF, else the first LF LF; a text input is a header block, it has none
FollowingSeparator ==
  IF form = "text" THEN <<>>
  ELSE IF Position(input, CRLFCRLF) # 0 THEN After(input, CRLFCRLF)
  ELSE IF Position(input, LFLF) # 0 THEN After(input, LFLF)
  ELSE <<>>

\* C3: after a successful parse, of text or of bytes, the body is None exactly
\* when no byte followed the header/body separator, and Some of exactly the bytes
\* that followed it otherwise.
C3_BodyNoneIffNothingFollows ==
  Succeeded =>
    IF FollowingSeparator = <<>>
    THEN result.value.body = None
    ELSE result.value.body = Some(FollowingSeparator)

\* the request line is METHOD path HTTP/1.1, METHOD of the fixed set, no "?" in path
PlainForm(line) ==
  /\ Len(line) >= 6
  /\ line[1] \in Methods
  /\ line[2] = SP
  /\ SubSeq(line, Len(line) - 2, Len(line)) = <<SP, "HTTP/", "1.1">>
  /\ \A i \in 3..(Len(line) - 3) : line[i] \notin Whitespace \cup {"?"}

PlainPath(line) == SubSeq(line, 3, Len(line) - 3)

\* C4: a request line METHOD path HTTP/1.1 with METHOD of the fixed set and no "?"
\* in path is accepted; the route is made of that METHOD and that path, the query
\* is absent, and with no header line after it the parse succeeds with empty
\* headers and empty cookies.
C4_PlainRequestLine ==
  (PastRequestLine /\ PlainForm(FirstLine)) =>
    /\ request # None
    /\ request[1].path = [method |-> FirstLine[1], path |-> PlainPath(FirstLine)]
    /\ request[1].query = None
    /\ (Done /\ HeaderLinesOf(header_string) = <<>>) =>
         /\ result.tag = "Ok"
         /\ result.value.path = [method |-> FirstLine[1], path |-> PlainPath(FirstLine)]
         /\ result.value.query = None
         /\ DOMAIN result.value.headers = {}
         /\ result.value.cookies = {}

C4_Witness ==
  /\ Succeeded /\ PlainForm(FirstLine) /\ HeaderLinesOf(header_string) = <<>>
  /\ FirstLine[1] = "DELETE" /\ Len(PlainPath(FirstLine)) = 2
  /\ form = "bytes"

\* C5: a target with "?" and nothing after its first "?" fails the parse with
\* QueryError carrying the whole target.
C5_EmptyQueryCarriesTarget ==
  (PastRequestLine /\ Len(Tokens) >= 2 /\ Tokens[1] \in {<<m>> : m \in Methods}
     /\ Contains(Tokens[2], "?") /\ Find(Tokens[2], "?") = Len(Tokens[2]))
    => result = Err("QueryError", Tokens[2])

\* C6: after a successful parse the header map is the last-occurrence mapping over
\* the lines between the request line and the first empty line: key = the text
\* before the first ":", as received; value = the text after it, trimmed; a later
\* line of the same key replaces the earlier; lines after the empty line add
\* nothing and fail nothing.
C6_HeaderMap ==
  Succeeded =>
    LET block == HeaderLinesOf(header_string)
        headers == result.value.headers
    IN /\ DOMAIN headers = {KeyOf(block[i]) : i \in 1..Len(block)}
       /\ \A k \in DOMAIN headers : headers[k] = Trim(ValueOf(LastWith(block, k)))

C6_Witness ==
  /\ Succeeded
  /\ LET block == HeaderLinesOf(header_string)
     IN /\ Len(block) = 2
        /\ KeyOf(block[1]) = KeyOf(block[2])
        /\ Trim(ValueOf(block[1])) # Trim(ValueOf(block[2]))
        /\ Len(Lines(header_string)) > Len(block) + 2
        /\ ~Contains(Lines(header_string)[Len(block) + 3], ":")

\* what follows the first "?" of a target
ValueOfTarget(target) == SubSeq(target, Find(target, "?") + 1, Len(target))

\* a query string, or a Cookie value, with a piece that has no "="
MalformedQuery(q) == \E p \in {Split(q, "&")[i] : i \in 1..Len(Split(q, "&"))} : ~Contains(p, "=")
MalformedCookies(v) == \E p \in {Split(v, ";")[i] : i \in 1..Len(Split(v, ";"))} : ~Contains(p, "=")

\* the checks of the request line, in their order: whether each fails on the
\* string handed to parse_header_str
CheckFails(n) ==
  CASE n = 1 -> Lines(header_string) = <<>> \/ Len(Tokens) = 0
    [] n = 2 -> Len(Tokens) >= 1 /\ Tokens[1] \notin {<<m>> : m \in Methods}
    [] n = 3 -> Len(Tokens) < 2
    [] n = 4 -> /\ Len(Tokens) >= 2
                /\ Contains(Tokens[2], "?")
                /\ MalformedQuery(ValueOfTarget(Tokens[2]))
    [] n = 5 -> Len(Tokens) < 3
    [] n = 6 -> Len(Tokens) >= 3 /\ ~Contains(Tokens[3], "HTTP/")

\* the error each check fails with; a QueryError is known by its kind
CheckError(n) ==
  CASE n = 1 -> Err("InvalidRequest", header_string)
    [] n = 2 -> Err("InvalidRequestMethod", Tokens[1])
    [] n = 3 -> Err("NoUrlFound", <<>>)
    [] n = 4 -> Err("QueryError", result.payload)
    [] n = 5 -> Err("InvalidRequest", header_string)
    [] n = 6 -> Err("HttpVersionNotSupported", Tokens[3])

FailingChecks == {n \in 1..6 : CheckFails(n)}
FirstFailing == CHOOSE n \in FailingChecks : \A m \in FailingChecks : n <= m

\* C9: the request line is checked left to right and the parse fails with the
\* error of the first check that fails (no line or no method, unknown method, no
\* target, malformed query, no version, version without HTTP/); no header line is
\* read before the request line has passed every check.
C9_FirstFailingCheck ==
  PastRequestLine =>
    IF FailingChecks # {}
    THEN /\ pc = "done"
         /\ result = CheckError(FirstFailing)
         /\ request = None
         /\ Len(lines) + 1 >= Len(Lines(header_string))
    ELSE /\ request # None
         /\ (result.tag = "Err" => result.kind \in {"InvalidHeader", "CookieError"})

C9_Witness ==
  /\ Done
  /\ FirstLine = <<"GET", SP, "/a", "?", "bad">>
  /\ result.kind = "QueryError"
  /\ Len(lines) >= 1

\* the Cookie lines among the header lines: those whose key is exactly Cookie
CookieLines(block) ==
  {i \in 1..Len(block) : Contains(block[i], ":") /\ KeyOf(block[i]) = <<"Cookie">>}

\* C10: the Cookie header is parsed once every header line has been processed,
\* from the last value stored under the key Cookie: a header line without ":"
\* fails the parse with InvalidHeader(line) whatever the Cookie lines before it; a
\* malformed Cookie line overwritten by a well-formed one fails nothing; a
\* malformed last Cookie value fails the parse with the cookie error; the cookies
\* are non-empty only when a well-formed header named exactly Cookie was there.
C10_CookiesAfterHeaders ==
  LET block == HeaderLinesOf(header_string)
      nocolon == {i \in 1..Len(block) : ~Contains(block[i], ":")}
      last == Trim(ValueOf(LastWith(block, <<"Cookie">>)))
  IN /\ (pc \in {"headers", "cookie"}) => request[1].cookies = {}
     /\ (pc = "cookie") =>
          /\ Len(Lines(header_string)) - Len(lines) >= 1 + Len(block)
          /\ nocolon = {}
     /\ (Done /\ FailingChecks = {}) =>
          IF nocolon # {}
          THEN result = Err("InvalidHeader", block[CHOOSE i \in nocolon : \A j \in nocolon : i <= j])
          ELSE IF CookieLines(block) = {}
          THEN result.tag = "Ok" /\ result.value.cookies = {}
          ELSE IF MalformedCookies(last)
          THEN result.tag = "Err" /\ result.kind = "CookieError"
          ELSE result.tag = "Ok" /\ result.value.cookies # {}

C10_Witness ==
  /\ Succeeded
  /\ LET block == HeaderLinesOf(header_string)
     IN /\ Cardinality(CookieLines(block)) = 2
        /\ MalformedCookies(Trim(ValueOf(block[1])))
        /\ result.value.cookies = {<<<<"a">>, <<"1">>>>, <<<<"b">>, <<"2">>>>}

\* the status line, the header lines and the body of the Response, as text
StatusLineText ==
  <<"HTTP/1.1", SP>> \o response.status.code \o <<SP>> \o response.status.reason \o <<CR, LF>>
HeaderLineText(i) == response.headers[i][1] \o <<":", SP>> \o response.headers[i][2]
BodyText == IF response.body = None THEN <<>> ELSE response.body[1]

\* C7: the serialization of a Response is its status line HTTP/1.1 <code> <reason>
\* CRLF, one "<key>: <value>" CRLF line per header, one blank line CRLF even with
\* no header, then the body bytes and nothing after them; Response::new(OK) gives
\* exactly "HTTP/1.1 200 OK\r\n\r\n", followed by s after set_body_string(s).
C7_WireFormat ==
  output # None =>
    LET o == output[1]
        sl == StatusLineText
        b == BodyText
        mid == SubSeq(o, Len(sl) + 1, Len(o) - Len(b) - 2)
    IN /\ Len(o) >= Len(sl) + 2 + Len(b)
       /\ SubSeq(o, 1, Len(sl)) = sl
       /\ SubSeq(o, Len(o) - Len(b) + 1, Len(o)) = b
       /\ SubSeq(o, Len(o) - Len(b) - 1, Len(o) - Len(b)) = <<CR, LF>>
       /\ Lines(mid) = [i \in 1..Len(response.headers) |-> HeaderLineText(i)]
       /\ mid # <<>> => SubSeq(mid, Len(mid) - 1, Len(mid)) = <<CR, LF>>
       /\ (calls = <<>> /\ response.status = StatusOK)
            => o = <<"HTTP/1.1", SP, "200", SP, "OK", CR, LF, CR, LF>>
       /\ \A s \in BodyArgs :
            (calls = <<Call("set_body_string", s)>> /\ response.status = StatusOK)
              => o = <<"HTTP/1.1", SP, "200", SP, "OK", CR, LF, CR, LF>> \o s

C7_Witness ==
  /\ output # None
  /\ Len(response.headers) >= 2
  /\ response.body # None
  /\ response.status = StatusOK

LocationsOf(resp) == {i \in 1..Len(resp.headers) : resp.headers[i][1] = <<"Location">>}
OtherHeaders(resp) ==
  {resp.headers[i] : i \in 1..Len(resp.headers) \ LocationsOf(resp)}

\* C8: redirect(location), whatever the Response was before, leaves it with status
\* 301 Moved Permanently and exactly one Location header, of value location, and
\* changes no other header and not the body; serialized then, it starts with
\* "HTTP/1.1 301 Moved Permanently" and holds "Location: <location>".
C8_Redirect ==
  /\ [][\A location \in LocationArgs :
          calls' = Append(calls, Call("redirect", location)) =>
            /\ response'.status = StatusMovedPermanently
            /\ Cardinality(LocationsOf(response')) = 1
            /\ \A i \in LocationsOf(response') : response'.headers[i][2] = location
            /\ OtherHeaders(response') = OtherHeaders(response)
            /\ response'.body = response.body]_vars
  /\ [](\A location \in LocationArgs :
          (output # None /\ calls # <<>> /\ calls[Len(calls)] = Call("redirect", location))
            => /\ SubSeq(output[1], 1, 7)
                   = <<"HTTP/1.1", SP, "301", SP, "Moved", SP, "Permanently">>
               /\ Position(output[1], <<"Location", ":", SP>> \o location) # 0)

C8_Witness ==
  /\ output # None
  /\ Len(calls) = 3
  /\ calls[1] = Call("add_header", <<<<"Location">>, <<"/old">>>>)
  /\ calls[2].op = "set_body_string"
  /\ calls[3] = Call("redirect", <<"/test">>)
  /\ response.status = StatusMovedPermanently

====
